---- MODULE Spec2Model ----
(***************************************************************************)
(* Model of kelmore_files/files.py: a convenience layer over the file      *)
(* system.  Strings (paths, file names, file contents) are sequences of    *)
(* one-character strings, so that os.path.join / dirname / splitext and    *)
(* text-mode reading are computed character by character.  The file system *)
(* is a finite tree of entries (regular files, directories, symlinks)      *)
(* rooted at the working directory "/".                                    *)
(***************************************************************************)
EXTENDS Integers, Sequences, FiniteSets, TLC

VARIABLES fs, pre, last, dw, fw, handles

vars == <<fs, pre, last, dw, fw, handles>>

\* handles counts the file objects the library opened that are still open.
\* A with-statement closes its file before the call returns or raises, so
\* the operations written with one leave the count as it was.

-----------------------------------------------------------------------------
(* Characters *)
SEP == "/"
DOT == "."
LF == "\n"
CR == "\r"
SPACE == " "

-----------------------------------------------------------------------------
(* Bounds *)
MaxText == 1
MaxFindText == 4
MaxDepth == 4
MaxHandles == 2

-----------------------------------------------------------------------------
(* String helpers (Python str methods used by the source) *)

startswith(s, c) == Len(s) > 0 /\ s[1] = c

endswith(s, c) == Len(s) > 0 /\ s[Len(s)] = c

MaxIndex(I) == IF I = {} THEN 0 ELSE CHOOSE i \in I : \A j \in I : j <= i

MinIndex(I, none) == IF I = {} THEN none ELSE CHOOSE i \in I : \A j \in I : i <= j

\* Python's s.rfind(c) + 1: the 1-based index of the last c in s, 0 if none
rfind(s, c) == MaxIndex({i \in 1..Len(s) : s[i] = c})

RECURSIVE rstrip(_, _)
rstrip(s, c) ==
  IF endswith(s, c) THEN rstrip(SubSeq(s, 1, Len(s) - 1), c) ELSE s

AllSep(s) == \A i \in 1..Len(s) : s[i] = SEP

\* posixpath.join(a, b)
join(a, b) ==
  IF startswith(b, SEP) THEN b
  ELSE IF a = <<>> \/ endswith(a, SEP) THEN a \o b
  ELSE a \o <<SEP>> \o b

DirHead(head) ==
  IF head # <<>> /\ ~AllSep(head) THEN rstrip(head, SEP) ELSE head

\* posixpath.dirname(p)
dirname(p) == DirHead(SubSeq(p, 1, rfind(p, SEP)))

\* posixpath.basename(p)
basename(p) == SubSeq(p, rfind(p, SEP) + 1, Len(p))

SplitExtAt(p, sepIndex, dotIndex) ==
  IF dotIndex > sepIndex
     /\ \E k \in (sepIndex + 1)..(dotIndex - 1) : p[k] # DOT
  THEN <<SubSeq(p, 1, dotIndex - 1), SubSeq(p, dotIndex, Len(p))>>
  ELSE <<p, <<>>>>

\* posixpath.splitext(p): <<root, ext>>; leading dots of the last component
\* do not start an extension
splitext(p) == SplitExtAt(p, rfind(p, SEP), rfind(p, DOT))

\* the components of a path: the maximal runs of non-separator characters
RECURSIVE Split(_)
RECURSIVE SplitAt(_, _)
Split(p) ==
  IF p = <<>> THEN <<>>
  ELSE IF p[1] = SEP THEN Split(Tail(p))
  ELSE SplitAt(p, MinIndex({j \in 1..Len(p) : p[j] = SEP}, Len(p) + 1))

SplitAt(p, e) == <<SubSeq(p, 1, e - 1)>> \o Split(SubSeq(p, e, Len(p)))

-----------------------------------------------------------------------------
(* The file-system universe *)

D == <<"d">>
A_TXT == <<"a", ".", "t", "x", "t">>
B_LOG == <<"b", ".", "l", "o", "g">>
SUB == <<"s", "u", "b">>
C_TXT == <<"c", ".", "t", "x", "t">>
LNK == <<"l">>

D_A == join(D, A_TXT)
D_B == join(D, B_LOG)
D_SUB == join(D, SUB)
D_SUB_C == join(D_SUB, C_TXT)
D_L == join(D, LNK)

ROOT == <<>>
NoNode == <<"?">>

Nodes == {D, D_A, D_B, D_SUB, D_SUB_C, D_L}

Absent == [kind |-> "absent", text |-> <<>>, target |-> <<>>]
Dir == [kind |-> "dir", text |-> <<>>, target |-> <<>>]
File(t) == [kind |-> "file", text |-> t, target |-> <<>>]
Link(t) == [kind |-> "link", text |-> <<>>, target |-> t]

\* the entry stored at a node; the working directory always is a directory
Entry(n, f) ==
  IF n = ROOT THEN Dir ELSE IF n \in Nodes THEN f[n] ELSE Absent

\* kernel path resolution: the node a path names, following a symlink in
\* the last component only when follow is set; NoNode when a leading
\* component is missing or is not a directory
RECURSIVE Walk(_, _, _, _)
RECURSIVE WalkStep(_, _, _, _)
RECURSIVE WalkLink(_, _, _, _)
Walk(cur, comps, follow, f) ==
  IF comps = <<>> THEN cur ELSE WalkStep(join(cur, Head(comps)), comps, follow, f)

WalkStep(cand, comps, follow, f) ==
  IF cand \notin Nodes THEN NoNode
  ELSE IF f[cand].kind = "link" /\ (follow \/ Len(comps) > 1)
  THEN WalkLink(Walk(ROOT, Split(f[cand].target), TRUE, f), comps, follow, f)
  ELSE IF Len(comps) = 1 THEN cand
  ELSE IF f[cand].kind = "dir" THEN Walk(cand, Tail(comps), follow, f)
  ELSE NoNode

WalkLink(t, comps, follow, f) ==
  IF Len(comps) = 1 THEN t
  ELSE IF t # NoNode /\ Entry(t, f).kind = "dir" THEN Walk(t, Tail(comps), follow, f)
  ELSE NoNode

Resolve(p, follow, f) ==
  IF p = <<>> THEN NoNode
  ELSE Walk(ROOT, Split(p), follow \/ endswith(p, SEP), f)

\* a path with a trailing separator names a directory or nothing
KindAt(p, k) == IF endswith(p, SEP) /\ k # "dir" THEN "absent" ELSE k

\* os.stat / os.lstat reduced to the entry kind
stat(p, f) == KindAt(p, Entry(Resolve(p, TRUE, f), f).kind)

lstat(p, f) == KindAt(p, Entry(Resolve(p, FALSE, f), f).kind)

IsUnder(n, top) == Len(n) > Len(top) /\ SubSeq(n, 1, Len(top)) = top
                   /\ (top = ROOT \/ n[Len(top) + 1] = SEP)

IsEntryOf(n, t, f) == n \in Nodes /\ dirname(n) = t /\ f[n].kind # "absent"

HasChildren(n, f) == \E c \in Nodes : IsEntryOf(c, n, f)

-----------------------------------------------------------------------------
(* Results of library calls: the file system afterwards, the exception     *)
(* raised ("" when the call returns) and the returned value wrapped in a   *)
(* sequence (<<>> is None).                                                *)

Ok(f) == [fs |-> f, err |-> "", ret |-> <<>>]
Ret(f, v) == [fs |-> f, err |-> "", ret |-> <<v>>]
Raise(f, e) == [fs |-> f, err |-> e, ret |-> <<>>]

-----------------------------------------------------------------------------
(* Operating-system primitives the source calls *)

RemoveAt(n, k, f) ==
  IF k = "absent" THEN Raise(f, "FileNotFoundError")
  ELSE IF k = "dir" THEN Raise(f, "IsADirectoryError")
  ELSE Ok([f EXCEPT ![n] = Absent])

\* os.remove / os.unlink
os_remove(p, f) == RemoveAt(Resolve(p, FALSE, f), lstat(p, f), f)

RmdirAt(n, k, f) ==
  IF k = "absent" THEN Raise(f, "FileNotFoundError")
  ELSE IF k # "dir" THEN Raise(f, "NotADirectoryError")
  ELSE IF HasChildren(n, f) \/ n = ROOT THEN Raise(f, "OSError")
  ELSE Ok([f EXCEPT ![n] = Absent])

\* os.rmdir
os_rmdir(p, f) == RmdirAt(Resolve(p, FALSE, f), lstat(p, f), f)

RmtreeAt(n, f) ==
  IF n \in Nodes /\ f[n].kind = "dir"
  THEN Ok([m \in Nodes |-> IF m = n \/ IsUnder(m, n) THEN Absent ELSE f[m]])
  ELSE Ok(f)

\* shutil.rmtree(p, ignore_errors=True): removes a real directory with its
\* whole subtree; any failure (missing path, symlink, not a directory) is
\* swallowed
shutil_rmtree(p, f) == RmtreeAt(Resolve(p, FALSE, f), f)

\* os.mkdir at the node the path resolves to
MkdirAt(n, f) ==
  IF n = ROOT THEN Raise(f, "FileExistsError")
  ELSE IF n \notin Nodes THEN Raise(f, "FileNotFoundError")
  ELSE IF f[n].kind # "absent" THEN Raise(f, "FileExistsError")
  ELSE Ok([f EXCEPT ![n] = Dir])

\* os.makedirs(p): creates the missing leading directories, then p
RECURSIVE os_makedirs(_, _)
RECURSIVE MakeHead(_, _, _)
MakeLeaf(p, r) ==
  IF r.err \notin {"", "FileExistsError"} THEN r
  ELSE MkdirAt(Resolve(p, FALSE, r.fs), r.fs)

os_makedirs(p, f) == MakeLeaf(p, MakeHead(dirname(p), p, f))

MakeHead(head, p, f) ==
  IF head # <<>> /\ basename(p) # <<>> /\ stat(head, f) = "absent"
  THEN os_makedirs(head, f) ELSE Ok(f)

WriteAt_append(n, p, text, f) ==
  IF n = ROOT THEN Raise(f, "IsADirectoryError")
  ELSE IF n \notin Nodes THEN Raise(f, "FileNotFoundError")
  ELSE IF f[n].kind = "dir" \/ endswith(p, SEP) THEN Raise(f, "IsADirectoryError")
  ELSE Ok([f EXCEPT ![n] = File(f[n].text \o text)])

WriteAt(n, p, text, f) ==
  IF n = ROOT THEN Raise(f, "IsADirectoryError")
  ELSE IF n \notin Nodes THEN Raise(f, "FileNotFoundError")
  ELSE IF f[n].kind = "dir" \/ endswith(p, SEP) THEN Raise(f, "IsADirectoryError")
  ELSE Ok([f EXCEPT ![n] = File(text)])

\* open(p, 'w') followed by write(text) and close: creates or truncates
open_write(p, text, f) == WriteAt(Resolve(p, TRUE, f), p, text, f)

\* universal-newline translation of text-mode reading (newline=None):
\* "\r\n" and a lone "\r" are read as "\n"
RECURSIVE translate(_)
translate(t) ==
  IF t = <<>> THEN <<>>
  ELSE IF t[1] = CR
  THEN IF Len(t) > 1 /\ t[2] = LF THEN <<LF>> \o translate(SubSeq(t, 3, Len(t)))
       ELSE <<LF>> \o translate(Tail(t))
  ELSE <<t[1]>> \o translate(Tail(t))

ReadAt(n, k, f) ==
  IF k = "absent" THEN Raise(f, "FileNotFoundError")
  ELSE IF k = "dir" THEN Raise(f, "IsADirectoryError")
  ELSE Ret(f, translate(f[n].text))

\* open(p, 'r') and read(): the decoded content of the file p resolves to
open_read(p, f) == ReadAt(Resolve(p, TRUE, f), stat(p, f), f)

\* iterating a text-mode handle: the lines of the decoded content, each
\* with its terminating "\n" except possibly the last
RECURSIVE readlines(_)
RECURSIVE LinesAt(_, _)
readlines(t) ==
  IF t = <<>> THEN <<>>
  ELSE LinesAt(t, MinIndex({j \in 1..Len(t) : t[j] = LF}, Len(t)))

LinesAt(t, e) == <<SubSeq(t, 1, e)>> \o readlines(SubSeq(t, e + 1, Len(t)))

Names(s) == [i \in 1..Len(s) |-> basename(s[i])]

\* one directory level as os.walk reports it: the names of the entries of
\* top that are directories (symlinks followed) and of the others, in the
\* enumeration order ord
Listing(top, ord, f) ==
  [root |-> top,
   dirs |-> Names(SelectSeq(ord, LAMBDA n : IsEntryOf(n, Resolve(top, TRUE, f), f)
                                             /\ stat(n, f) = "dir")),
   files |-> Names(SelectSeq(ord, LAMBDA n : IsEntryOf(n, Resolve(top, TRUE, f), f)
                                              /\ stat(n, f) # "dir"))]

\* os.walk(top): top-down, not following symlinks to directories; yields
\* nothing when top is not a directory
RECURSIVE os_walk(_, _, _)
RECURSIVE WalkLevel(_, _, _, _)
RECURSIVE WalkInto(_, _, _, _)
RECURSIVE WalkChild(_, _, _)
os_walk(top, ord, f) ==
  IF stat(top, f) # "dir" THEN <<>>
  ELSE WalkLevel(top, Listing(top, ord, f), ord, f)

WalkLevel(top, lv, ord, f) == <<lv>> \o WalkInto(top, lv.dirs, ord, f)

WalkInto(top, names, ord, f) ==
  IF names = <<>> THEN <<>>
  ELSE WalkChild(join(top, Head(names)), ord, f) \o WalkInto(top, Tail(names), ord, f)

WalkChild(new_path, ord, f) ==
  IF lstat(new_path, f) = "link" THEN <<>> ELSE os_walk(new_path, ord, f)

-----------------------------------------------------------------------------
(* FileCheck *)

exists(full_path, f) == stat(full_path, f) # "absent"

is_directory(full_path, f) == stat(full_path, f) = "dir"

is_file(full_path, f) == stat(full_path, f) = "file"

is_link(full_path, f) == lstat(full_path, f) = "link"

-----------------------------------------------------------------------------
(* FileTools *)

concat(a, b) == join(a, b)

-----------------------------------------------------------------------------
(* FileTransform *)

WithDot_asis(extension) == extension

WithDot(extension) ==
  IF ~startswith(extension, DOT) THEN <<DOT>> \o extension ELSE extension

FilterBy(file_paths, ext) ==
  SelectSeq(file_paths, LAMBDA file_path : splitext(file_path)[2] = ext)

\* FileTransform.filter_by_extension
filter_by_extension(file_paths, extension) == FilterBy(file_paths, WithDot(extension))

-----------------------------------------------------------------------------
(* FileIO *)

\* FileIO.unlink
FileIO_unlink(full_path, f) == os_remove(full_path, f)

\* FileIO.delete
FileIO_delete(full_path, f) ==
  IF is_directory(full_path, f) THEN Raise(f, "ValueError")
  ELSE IF exists(full_path, f) THEN os_remove(full_path, f)
  ELSE Ok(f)

\* FileIO.open(full_path, write=True) with the write and close of the caller
FileIO_open_write(full_path, text, f) ==
  IF is_directory(full_path, f) THEN Raise(f, "ValueError")
  ELSE open_write(full_path, text, f)

\* FileIO.open(full_path) with the read and close of the caller
FileIO_open_read(full_path, f) ==
  IF is_directory(full_path, f) THEN Raise(f, "ValueError")
  ELSE open_read(full_path, f)

\* FileIO.read
FileIO_read(full_path, f) ==
  IF is_file(full_path, f) THEN FileIO_open_read(full_path, f) ELSE Ok(f)

FileIO_save_unguarded(full_path, text, overwrite, f) ==
  FileIO_open_write(full_path, text, f)

\* FileIO.save
FileIO_save(full_path, text, overwrite, f) ==
  IF ~overwrite /\ exists(full_path, f) THEN Raise(f, "IOError")
  ELSE FileIO_open_write(full_path, text, f)

\* FileIO.touch
FileIO_touch(full_path, overwrite, f) == FileIO_save(full_path, <<>>, overwrite, f)

-----------------------------------------------------------------------------
(* FileDirectories *)

PrefixAll(parent, names) == [i \in 1..Len(names) |-> concat(parent, names[i])]

Named(root, names, include_full_path) ==
  IF include_full_path THEN PrefixAll(root, names) ELSE names

Filtered(names, extension) ==
  IF extension # <<>> THEN filter_by_extension(names, extension) ELSE names

\* the loop of FileDirectories.files over the levels os.walk yields
RECURSIVE FilesLoop(_, _, _, _)
FilesLoop(levels, recursive, include_full_path, extension) ==
  IF levels = <<>> THEN <<>>
  ELSE Filtered(Named(Head(levels).root, Head(levels).files, include_full_path), extension)
       \o (IF recursive
           THEN FilesLoop(Tail(levels), recursive, include_full_path, extension)
           ELSE <<>>)

\* FileDirectories.files
files(directory, recursive, include_full_path, extension, ord, f) ==
  IF is_file(directory, f) THEN Raise(f, "ValueError")
  ELSE Ret(f, FilesLoop(os_walk(directory, ord, f), recursive, include_full_path, extension))

\* the loop of FileDirectories.children over the levels os.walk yields
RECURSIVE ChildrenLoop(_, _, _, _)
ChildrenLoop(levels, recursive, include_full_path, extension) ==
  IF levels = <<>> THEN <<>>
  ELSE Named(Head(levels).root, Head(levels).dirs, include_full_path)
       \o Filtered(Named(Head(levels).root, Head(levels).files, include_full_path), extension)
       \o (IF recursive
           THEN ChildrenLoop(Tail(levels), recursive, include_full_path, extension)
           ELSE <<>>)

\* FileDirectories.children
children(directory, recursive, include_full_path, extension, ord, f) ==
  IF is_file(directory, f) THEN Raise(f, "ValueError")
  ELSE Ret(f, ChildrenLoop(os_walk(directory, ord, f), recursive, include_full_path, extension))

\* the first statement of FileDirectories.delete
DeleteEntry(directory, f) ==
  IF is_link(directory, f) THEN FileIO_unlink(directory, f)
  ELSE IF is_file(directory, f) THEN FileIO_delete(directory, f)
  ELSE Ok(f)

\* the second statement of FileDirectories.delete
DeleteDirectory(directory, recursive, r) ==
  IF r.err # "" THEN r
  ELSE IF recursive THEN shutil_rmtree(directory, r.fs)
  ELSE os_rmdir(directory, r.fs)

\* FileDirectories.delete
FileDirectories_delete(directory, recursive, f) ==
  DeleteDirectory(directory, recursive, DeleteEntry(directory, f))

ClearChild_rmdir(full_path, f) ==
  IF is_link(full_path, f) THEN FileIO_unlink(full_path, f)
  ELSE IF is_file(full_path, f) THEN FileIO_delete(full_path, f)
  ELSE FileDirectories_delete(full_path, FALSE, f)

\* the body of the loop of the recursive branch of FileDirectories.clear
ClearChild(full_path, f) ==
  IF is_link(full_path, f) THEN FileIO_unlink(full_path, f)
  ELSE IF is_file(full_path, f) THEN FileIO_delete(full_path, f)
  ELSE FileDirectories_delete(full_path, TRUE, f)

\* the loop of the recursive branch of FileDirectories.clear
RECURSIVE ClearChildrenLoop(_, _)
RECURSIVE ClearChildrenNext(_, _)
ClearChildrenLoop(paths, f) ==
  IF paths = <<>> THEN Ok(f)
  ELSE ClearChildrenNext(ClearChild(Head(paths), f), Tail(paths))

ClearChildrenNext(r, paths) ==
  IF r.err # "" THEN r ELSE ClearChildrenLoop(paths, r.fs)

\* the loop of the non-recursive branch of FileDirectories.clear
RECURSIVE ClearFilesLoop(_, _, _)
RECURSIVE ClearFilesNext(_, _, _)
ClearFilesLoop(directory, names, f) ==
  IF names = <<>> THEN Ok(f)
  ELSE ClearFilesNext(FileIO_delete(concat(directory, Head(names)), f), directory, Tail(names))

ClearFilesNext(r, directory, names) ==
  IF r.err # "" THEN r ELSE ClearFilesLoop(directory, names, r.fs)

ClearRecursive(c, f) ==
  IF c.err # "" THEN c ELSE ClearChildrenLoop(c.ret[1], f)

ClearFlat(directory, l, f) ==
  IF l.err # "" THEN l ELSE ClearFilesLoop(directory, l.ret[1], f)

\* FileDirectories.clear
clear(directory, recursive, ord, f) ==
  IF is_file(directory, f) THEN Raise(f, "ValueError")
  ELSE IF ~exists(directory, f) THEN Ok(f)
  ELSE IF recursive
  THEN ClearRecursive(children(directory, FALSE, TRUE, <<>>, ord, f), f)
  ELSE ClearFlat(directory, files(directory, FALSE, FALSE, <<>>, ord, f), f)

\* FileDirectories.clear_all
clear_all(directory, ord, f) ==
  IF is_file(directory, f) THEN Raise(f, "ValueError")
  ELSE clear(directory, TRUE, ord, f)

clear_files_recursive(directory, ord, f) ==
  IF is_file(directory, f) THEN Raise(f, "ValueError")
  ELSE clear(directory, TRUE, ord, f)

\* FileDirectories.clear_files
clear_files(directory, ord, f) ==
  IF is_file(directory, f) THEN Raise(f, "ValueError")
  ELSE clear(directory, FALSE, ord, f)

Created(full_path, r) == IF r.err # "" THEN r ELSE Ret(r.fs, full_path)

\* FileDirectories.create
create(full_path, f) ==
  IF ~exists(full_path, f) THEN Created(full_path, os_makedirs(full_path, f))
  ELSE IF is_file(full_path, f) THEN Ok(f)
  ELSE Ret(f, full_path)

RECURSIVE ParentLoop_once_more(_, _)
ParentLoop_once_more(full_path, depth) ==
  IF depth >= 0 THEN ParentLoop_once_more(dirname(full_path), depth - 1) ELSE full_path

\* the loop of FileDirectories.parent
RECURSIVE ParentLoop(_, _)
ParentLoop(full_path, depth) ==
  IF depth > 0 THEN ParentLoop(dirname(full_path), depth - 1) ELSE full_path

\* FileDirectories.parent
parent(full_path, depth, f) ==
  IF ~exists(full_path, f) THEN Ok(f)
  ELSE Ret(f, ParentLoop(full_path, depth))

-----------------------------------------------------------------------------
(* FileFind *)

IsSpace(c) == c \in {SPACE, LF, CR}

\* str.split(): the maximal runs of non-whitespace characters
RECURSIVE split(_)
RECURSIVE TokenAt(_, _)
split(line) ==
  IF line = <<>> THEN <<>>
  ELSE IF IsSpace(line[1]) THEN split(Tail(line))
  ELSE TokenAt(line, MinIndex({j \in 1..Len(line) : IsSpace(line[j])}, Len(line) + 1))

TokenAt(line, e) == <<SubSeq(line, 1, e - 1)>> \o split(SubSeq(line, e, Len(line)))

InSeq(x, s) == \E i \in 1..Len(s) : s[i] = x

RECURSIVE LineLoop_zero_based(_, _, _)
LineLoop_zero_based(lines, word, n) ==
  IF lines = <<>> THEN -1
  ELSE IF InSeq(word, split(Head(lines))) THEN n
  ELSE LineLoop_zero_based(Tail(lines), word, n + 1)

\* the loop of FileFind.line_number over the lines of the file
RECURSIVE LineLoop(_, _, _)
LineLoop(lines, word, n) ==
  IF lines = <<>> THEN -1
  ELSE IF InSeq(word, split(Head(lines))) THEN n + 1
  ELSE LineLoop(Tail(lines), word, n + 1)

Scan(in_pipe, word, f) ==
  IF in_pipe.err # "" THEN in_pipe
  ELSE Ret(f, LineLoop(readlines(in_pipe.ret[1]), word, 0))

\* FileFind.line_number
line_number(full_path, word, f) ==
  IF is_file(full_path, f) THEN Scan(open_read(full_path, f), word, f)
  ELSE Ok(f)

-----------------------------------------------------------------------------
(* Facade objects: an instance is the set of <<attribute, value>> pairs    *)
(* its constructor assigned.                                               *)

NoObject == [made |-> FALSE, arg |-> <<>>, attrs |-> {}]

HasAttr(o, name) == \E a \in o.attrs : a[1] = name

GetAttr(o, name) == (CHOOSE a \in o.attrs : a[1] = name)[2]

DirectoryWrapper_init_as_file(full_path, f) ==
  IF exists(full_path, f) /\ ~is_file(full_path, f)
  THEN [err |-> "ValueError", obj |-> NoObject]
  ELSE [err |-> "", obj |-> [made |-> TRUE, arg |-> full_path, attrs |-> {}]]

\* DirectoryWrapper.__init__: validates the path and assigns no attribute
DirectoryWrapper_init(full_path, f) ==
  IF exists(full_path, f) /\ ~is_directory(full_path, f)
  THEN [err |-> "ValueError", obj |-> NoObject]
  ELSE [err |-> "", obj |-> [made |-> TRUE, arg |-> full_path, attrs |-> {}]]

\* FileWrapper.__init__
FileWrapper_init(full_path, f) ==
  IF exists(full_path, f) /\ ~is_file(full_path, f)
  THEN [err |-> "ValueError", obj |-> NoObject]
  ELSE [err |-> "",
        obj |-> [made |-> TRUE, arg |-> full_path,
                 attrs |-> {<<"full_path", full_path>>,
                            <<"path", dirname(full_path)>>,
                            <<"name", basename(full_path)>>}]]

\* DirectoryWrapper.clear_all
DirectoryWrapper_clear_all(self, ord, f) ==
  IF ~HasAttr(self, "directory") THEN Raise(f, "AttributeError")
  ELSE clear_all(GetAttr(self, "directory"), ord, f)

\* DirectoryWrapper.files
DirectoryWrapper_files(self, recursive, include_full_path, ord, f) ==
  IF ~HasAttr(self, "directory") THEN Raise(f, "AttributeError")
  ELSE files(GetAttr(self, "directory"), recursive, include_full_path, <<>>, ord, f)

\* DirectoryWrapper.create
DirectoryWrapper_create(self, f) ==
  IF ~HasAttr(self, "directory") THEN Raise(f, "AttributeError")
  ELSE create(GetAttr(self, "directory"), f)

\* DirectoryWrapper.parent
DirectoryWrapper_parent(self, depth, f) ==
  IF ~HasAttr(self, "directory") THEN Raise(f, "AttributeError")
  ELSE parent(GetAttr(self, "directory"), depth, f)

-----------------------------------------------------------------------------
(* Inputs *)

Abs(p) == <<SEP>> \o p

\* enumeration orders of a directory's entries (unspecified by os.walk)
Ord1 == <<D, D_A, D_B, D_SUB, D_SUB_C, D_L>>
Orders == {Ord1, <<D_L, D_SUB_C, D_SUB, D_B, D_A, D>>}

TXT == <<"t", "x", "t">>
LOG == <<"l", "o", "g">>

\* the directory of the listing examples: d/a.txt, d/b.log, d/sub/c.txt
Tree(l) ==
  [n \in Nodes |-> IF n \in {D, D_SUB} THEN Dir
                   ELSE IF n = D_L THEN l
                   ELSE File(<<"x">>)]

ExampleTree == Tree(Absent)

InitTrees == {Tree(l) : l \in {Absent, Link(Abs(D_A)), Link(Abs(D_SUB)), Link(Abs(D_SUB_C))}}

DirPaths == {D, D_SUB, D_A, D_L}

\* all strings over an alphabet up to a length
RECURSIVE Strings(_, _)
Strings(alphabet, n) ==
  IF n = 0 THEN {<<>>}
  ELSE LET S == Strings(alphabet, n - 1)
       IN S \cup {Append(s, c) : s \in {t \in S : Len(t) = n - 1}, c \in alphabet}

IOPaths == {D_A, D_L, D, D_SUB_C}

-----------------------------------------------------------------------------
(* The state machine: every action is one call of a library operation;    *)
(* pre is the file system before the call, last the call and its outcome. *)

Call(op, path, text, flag, full, depth, r) ==
  [op |-> op, path |-> path, text |-> text, flag |-> flag, full |-> full,
   depth |-> depth, err |-> r.err, ret |-> r.ret]

NoCall == [op |-> "", path |-> <<>>, text |-> <<>>, flag |-> FALSE, full |-> FALSE,
           depth |-> 0, err |-> "", ret |-> <<>>]

Step(op, path, text, flag, full, depth, r) ==
  /\ pre' = fs
  /\ fs' = r.fs
  /\ last' = Call(op, path, text, flag, full, depth, r)

Init ==
  /\ fs \in InitTrees
  /\ pre = fs
  /\ last = NoCall
  /\ dw = NoObject
  /\ fw = NoObject
  /\ handles = 0

Touch ==
  \E full_path \in {D, D_A, D_B, D_SUB_C}, overwrite \in BOOLEAN :
    /\ Step("touch", full_path, <<>>, overwrite, FALSE, 0,
            FileIO_touch(full_path, overwrite, fs))
    /\ UNCHANGED <<dw, fw, handles>>

Create ==
  \E full_path \in {D, D_SUB} :
    /\ Step("create", full_path, <<>>, FALSE, FALSE, 0, create(full_path, fs))
    /\ UNCHANGED <<dw, fw, handles>>

IODelete ==
  \E full_path \in Nodes :
    /\ Step("io_delete", full_path, <<>>, FALSE, FALSE, 0, FileIO_delete(full_path, fs))
    /\ UNCHANGED <<dw, fw, handles>>

Delete ==
  \E directory \in Nodes, recursive \in BOOLEAN :
    /\ Step("delete", directory, <<>>, recursive, FALSE, 0,
            FileDirectories_delete(directory, recursive, fs))
    /\ UNCHANGED <<dw, fw, handles>>

Clear ==
  \E directory \in DirPaths, recursive \in BOOLEAN, ord \in Orders :
    /\ Step("clear", directory, <<>>, recursive, FALSE, 0,
            clear(directory, recursive, ord, fs))
    /\ UNCHANGED <<dw, fw, handles>>

ClearAll ==
  \E directory \in DirPaths, ord \in Orders :
    /\ Step("clear_all", directory, <<>>, TRUE, FALSE, 0, clear_all(directory, ord, fs))
    /\ UNCHANGED <<dw, fw, handles>>

ClearFiles ==
  \E directory \in DirPaths, ord \in Orders :
    /\ Step("clear_files", directory, <<>>, FALSE, FALSE, 0, clear_files(directory, ord, fs))
    /\ UNCHANGED <<dw, fw, handles>>

Files ==
  \E directory \in DirPaths, recursive \in BOOLEAN, include_full_path \in BOOLEAN,
     extension \in {<<>>, TXT, <<DOT>> \o TXT, LOG}, ord \in Orders :
    /\ Step("files", directory, extension, recursive, include_full_path, 0,
            files(directory, recursive, include_full_path, extension, ord, fs))
    /\ UNCHANGED <<dw, fw, handles>>

Parent ==
  \E full_path \in {D, D_SUB, D_SUB_C, D_SUB \o <<SEP>>, Abs(D_SUB_C), <<SEP>>, D_B},
     depth \in (-1)..MaxDepth :
    /\ Step("parent", full_path, <<>>, FALSE, FALSE, depth, parent(full_path, depth, fs))
    /\ UNCHANGED <<dw, fw, handles>>

\* the directory-tree operations
Next ==
  \/ Touch
  \/ Create
  \/ IODelete
  \/ Delete
  \/ Clear
  \/ ClearAll
  \/ ClearFiles

Spec == Init /\ [][Next]_vars

\* listing a directory whose entries come and go
NextList ==
  \/ Files
  \/ IODelete

SpecList == Init /\ [][NextList]_vars

\* the parent of a path
NextParent ==
  \/ Parent
  \/ IODelete

SpecParent == Init /\ [][NextParent]_vars

-----------------------------------------------------------------------------
(* Writing and reading text *)

InitIO ==
  /\ fs = [n \in Nodes |-> IF n = D THEN Dir
                          ELSE IF n = D_L THEN Link(Abs(D_A)) ELSE Absent]
  /\ pre = fs
  /\ last = NoCall
  /\ dw = NoObject
  /\ fw = NoObject
  /\ handles = 0

Save ==
  \E full_path \in IOPaths, text \in Strings({"x", CR, LF}, MaxText),
     overwrite \in BOOLEAN :
    /\ Step("save", full_path, text, overwrite, FALSE, 0,
            FileIO_save(full_path, text, overwrite, fs))
    /\ UNCHANGED <<dw, fw, handles>>

Read ==
  \E full_path \in IOPaths :
    /\ Step("read", full_path, <<>>, FALSE, FALSE, 0, FileIO_read(full_path, fs))
    /\ UNCHANGED <<dw, fw, handles>>

NextIO ==
  \/ Save
  \/ Read

SpecIO == InitIO /\ [][NextIO]_vars

-----------------------------------------------------------------------------
(* Searching a file for a word *)

InitFind ==
  /\ fs \in {[n \in Nodes |-> IF n = D THEN Dir ELSE IF n = D_A THEN File(t)
                                ELSE IF n = D_L THEN Link(Abs(D_A)) ELSE Absent] :
              t \in Strings({"a", SPACE, LF, CR}, MaxFindText)}
  /\ pre = fs
  /\ last = NoCall
  /\ dw = NoObject
  /\ fw = NoObject
  /\ handles = 0

\* the file objects a call of FileFind.line_number opens and does not close:
\* in_pipe = open(full_path, "r") has no close() and no with-statement
Unclosed(full_path, f) == IF is_file(full_path, f) THEN 1 ELSE 0

\* in_pipe is unreachable once line_number returns; whether the runtime has
\* finalised (and so closed) it by then is left to the implementation
LineNumber ==
  \E full_path \in {D_A, D_L, D, D_B}, word \in {<<"a">>, <<"a", "a">>, <<>>},
     collected \in BOOLEAN :
    /\ Step("line_number", full_path, word, FALSE, FALSE, 0,
            line_number(full_path, word, fs))
    /\ handles' = IF collected THEN handles ELSE handles + Unclosed(full_path, fs)
    /\ handles' <= MaxHandles
    /\ UNCHANGED <<dw, fw>>

\* a later garbage collection finalises an unreachable in_pipe, closing it
Finalize ==
  /\ handles > 0
  /\ handles' = handles - 1
  /\ UNCHANGED <<fs, pre, last, dw, fw>>

NextFind ==
  \/ LineNumber
  \/ Finalize

SpecFind == InitFind /\ [][NextFind]_vars

-----------------------------------------------------------------------------
(* The facades *)

FacadePaths == {D, D_A, D_SUB, D_L, D_SUB_C}

InitFacade ==
  /\ fs \in InitTrees \cup {[n \in Nodes |-> Absent]}
  /\ pre = fs
  /\ last = NoCall
  /\ dw = NoObject
  /\ fw = NoObject
  /\ handles = 0

\* the variable a constructor call is assigned to keeps its old value when
\* the constructor raises
Bound(r, old) == IF r.err = "" THEN r.obj ELSE old

NewDirectoryWrapper ==
  \E full_path \in FacadePaths :
    /\ Step("DirectoryWrapper", full_path, <<>>, FALSE, FALSE, 0,
            Raise(fs, DirectoryWrapper_init(full_path, fs).err))
    /\ dw' = Bound(DirectoryWrapper_init(full_path, fs), dw)
    /\ UNCHANGED <<fw, handles>>

NewFileWrapper ==
  \E full_path \in FacadePaths :
    /\ Step("FileWrapper", full_path, <<>>, FALSE, FALSE, 0,
            Raise(fs, FileWrapper_init(full_path, fs).err))
    /\ fw' = Bound(FileWrapper_init(full_path, fs), fw)
    /\ UNCHANGED <<dw, handles>>

DWClearAll ==
  /\ dw.made
  /\ \E ord \in Orders :
       Step("dw.clear_all", dw.arg, <<>>, TRUE, FALSE, 0,
            DirectoryWrapper_clear_all(dw, ord, fs))
  /\ UNCHANGED <<dw, fw, handles>>

DWFiles ==
  /\ dw.made
  /\ \E recursive \in BOOLEAN, include_full_path \in BOOLEAN :
       Step("dw.files", dw.arg, <<>>, recursive, include_full_path, 0,
            DirectoryWrapper_files(dw, recursive, include_full_path, Ord1, fs))
  /\ UNCHANGED <<dw, fw, handles>>

DWCreate ==
  /\ dw.made
  /\ Step("dw.create", dw.arg, <<>>, FALSE, FALSE, 0, DirectoryWrapper_create(dw, fs))
  /\ UNCHANGED <<dw, fw, handles>>

DWParent ==
  /\ dw.made
  /\ \E depth \in 0..2 :
       Step("dw.parent", dw.arg, <<>>, FALSE, FALSE, depth,
            DirectoryWrapper_parent(dw, depth, fs))
  /\ UNCHANGED <<dw, fw, handles>>

NextFacade ==
  \/ NewDirectoryWrapper
  \/ NewFileWrapper
  \/ DWClearAll
  \/ DWFiles
  \/ DWCreate
  \/ DWParent

SpecFacade == InitFacade /\ [][NextFacade]_vars

-----------------------------------------------------------------------------
(* Properties *)

Range(q) == {q[i] : i \in 1..Len(q)}

NoCR(t) == \A i \in 1..Len(t) : t[i] # CR

\* the entry a path resolves to, symlinks followed
At(p, f) == Entry(Resolve(p, TRUE, f), f)

\* C1: FileIO.save without overwrite raises "already exists" on every
\* existing path and leaves the file system unchanged; after a successful
\* save the path exists, so saving it again without overwrite raises while
\* saving it again with overwrite succeeds.
C1_SaveGuard ==
  last.op = "save" =>
    /\ (~last.flag /\ exists(last.path, pre)) => (last.err = "IOError" /\ fs = pre)
    /\ (last.flag /\ is_file(last.path, pre)) => last.err = ""
    /\ last.err = "" =>
         /\ FileIO_save(last.path, last.text, FALSE, fs).err = "IOError"
         /\ FileIO_save(last.path, last.text, FALSE, fs).fs = fs
         /\ FileIO_save(last.path, last.text, TRUE, fs).err = ""

C1_Witness ==
  /\ last.op = "save"
  /\ ~last.flag
  /\ is_file(last.path, pre)
  /\ At(last.path, pre).text # last.text
  /\ last.err = "IOError"
  /\ fs = pre

\* C2 as claimed: after every successful FileIO.save of a text T the file
\* holds exactly T and FileIO.read returns exactly T.
C2_ReadsBackExactly ==
  (last.op = "save" /\ last.err = "") =>
    /\ At(last.path, fs) = File(last.text)
    /\ FileIO_read(last.path, fs).ret = <<last.text>>

\* C2 amended: after every successful FileIO.save of a text T the file
\* holds exactly T, nothing of the previous content remaining, and
\* FileIO.read returns exactly T when T contains no carriage return (a
\* text with one is read back with the same number of characters or fewer,
\* none of them a carriage return).
C2_RoundTrip ==
  (last.op = "save" /\ last.err = "") =>
    /\ At(last.path, fs) = File(last.text)
    /\ FileIO_read(last.path, fs).err = ""
    /\ Len(FileIO_read(last.path, fs).ret) = 1
    /\ NoCR(last.text) => FileIO_read(last.path, fs).ret = <<last.text>>
    /\ NoCR(FileIO_read(last.path, fs).ret[1])
    /\ Len(FileIO_read(last.path, fs).ret[1]) <= Len(last.text)

C2_Witness ==
  /\ last.op = "save"
  /\ last.err = ""
  /\ ~last.flag
  /\ ~exists(last.path, pre)
  /\ last.text # <<>>
  /\ NoCR(last.text)
  /\ FileIO_read(last.path, fs).ret = <<last.text>>

\* the node a listed directory resolves to
Top(p, f) == Resolve(p, TRUE, f)

\* the non-directory entries a listing of the directory resolving to t
\* visits: those directly inside it and, when recursive, those below it
\* through real directories only
Visited(t, recursive, f) ==
  {n \in Nodes :
     /\ f[n].kind # "absent"
     /\ stat(n, f) # "dir"
     /\ \/ dirname(n) = t
        \/ /\ recursive
           /\ IsUnder(n, t)
           /\ \A m \in Nodes : (IsUnder(m, t) /\ IsUnder(n, m)) => f[m].kind = "dir"}

\* the name a listing reports for the entry n below the directory named p
Reported(n, p, t, full) ==
  IF full THEN p \o SubSeq(n, Len(t) + 1, Len(n)) ELSE basename(n)

\* name ends with the extension e (a dot and letters) after at least one
\* character of its last component that is not a dot
EndsWithExt(name, e) ==
  /\ Len(name) > Len(e)
  /\ SubSeq(name, Len(name) - Len(e) + 1, Len(name)) = e
  /\ \E k \in 1..(Len(name) - Len(e)) :
       /\ name[k] # DOT
       /\ \A j \in k..(Len(name) - Len(e)) : name[j] # SEP

Dotted(e) == IF e[1] = DOT THEN e ELSE <<DOT>> \o e

\* C3 as claimed: on the directory holding a.txt, b.log and sub/c.txt the
\* listings of FileDirectories.files are {a.txt, b.log}, recursively
\* {a.txt, b.log, sub/c.txt}, and for the extension "txt" {a.txt},
\* recursively {a.txt, sub/c.txt}.
C3_ListsRelativePaths ==
  (/\ last.op = "files"
   /\ pre = ExampleTree
   /\ last.path = D
   /\ ~last.full
   /\ last.text \in {<<>>, TXT}) =>
    /\ last.err = ""
    /\ Range(last.ret[1]) =
         (IF last.text = TXT THEN {A_TXT} ELSE {A_TXT, B_LOG})
         \cup (IF last.flag THEN {join(SUB, C_TXT)} ELSE {})

\* C3 amended: FileDirectories.files raises exactly on an existing file;
\* otherwise it reports the non-directory entries of the first level and,
\* when recursive, of every level, each by its bare name (or, with
\* include_full_path, joined to the directory it was found in), keeping
\* exactly those whose suffix is the extension with a leading dot; on the
\* example directory the recursive listings are {a.txt, b.log, c.txt} and,
\* for "txt", {a.txt, c.txt}.
C3_Listing ==
  last.op = "files" =>
    /\ (last.err = "ValueError") <=> is_file(last.path, pre)
    /\ last.err \in {"", "ValueError"}
    /\ fs = pre
    /\ last.err = "" =>
         /\ Len(last.ret) = 1
         /\ Range(last.ret[1]) =
              {Reported(n, last.path, Top(last.path, pre), last.full) :
                 n \in {m \in Visited(Top(last.path, pre), last.flag, pre) :
                          last.text = <<>> \/ EndsWithExt(m, Dotted(last.text))}}
         /\ (pre = ExampleTree /\ last.path = D /\ ~last.full) =>
              Range(last.ret[1]) =
                {n \in {A_TXT, B_LOG, C_TXT} :
                   /\ last.flag \/ n # C_TXT
                   /\ last.text \in {TXT, <<DOT>> \o TXT} => n # B_LOG
                   /\ last.text # LOG \/ n = B_LOG}

C3_Witness ==
  /\ last.op = "files"
  /\ pre = ExampleTree
  /\ last.path = D
  /\ last.flag
  /\ ~last.full
  /\ last.text = TXT
  /\ last.err = ""
  /\ Range(last.ret[1]) = {A_TXT, C_TXT}

ClearsFiles == last.op = "clear_files" \/ (last.op = "clear" /\ ~last.flag)

ClearsAll == last.op = "clear_all" \/ (last.op = "clear" /\ last.flag)

\* C4: clear_files (and clear without recursive) on an existing directory
\* returns normally, removes every regular file directly inside it and
\* changes nothing else than entries directly inside it that were files:
\* every sub-directory and everything below one is unchanged, and the
\* directory still exists.
C4_ClearFiles ==
  (ClearsFiles /\ is_directory(last.path, pre)) =>
    /\ last.err = ""
    /\ \A n \in Nodes :
         (dirname(n) = Top(last.path, pre) /\ pre[n].kind = "file") => fs[n] = Absent
    /\ \A n \in Nodes :
         fs[n] # pre[n] =>
           (dirname(n) = Top(last.path, pre) /\ is_file(n, pre) /\ fs[n] = Absent)
    /\ \A n \in Nodes :
         (dirname(n) = Top(last.path, pre) /\ pre[n].kind = "dir") =>
           \A m \in Nodes : (m = n \/ IsUnder(m, n)) => fs[m] = pre[m]
    /\ is_directory(last.path, fs)

C4_Witness ==
  /\ last.op = "clear_files"
  /\ last.path = D
  /\ pre[D_A].kind = "file"
  /\ pre[D_B].kind = "file"
  /\ pre[D_SUB_C].kind = "file"
  /\ last.err = ""
  /\ fs[D_A] = Absent
  /\ fs[D_B] = Absent
  /\ fs[D_SUB] = Dir
  /\ fs[D_SUB_C] = pre[D_SUB_C]

\* C5: clear_all (and clear with recursive) raises on an existing file and
\* does nothing on a missing path, in both cases leaving the file system
\* unchanged; on an existing directory it returns normally, the directory
\* still exists and nothing is left below it.
C5_ClearAll ==
  ClearsAll =>
    /\ is_file(last.path, pre) => (last.err = "ValueError" /\ fs = pre)
    /\ ~exists(last.path, pre) => (last.err = "" /\ fs = pre)
    /\ is_directory(last.path, pre) =>
         /\ last.err = ""
         /\ is_directory(last.path, fs)
         /\ Top(last.path, fs) = Top(last.path, pre)
         /\ \A n \in Nodes : IsUnder(n, Top(last.path, pre)) => fs[n] = Absent

C5_Witness ==
  /\ last.op = "clear_all"
  /\ last.path = D
  /\ pre[D_A].kind = "file"
  /\ pre[D_L].kind = "link"
  /\ pre[D_SUB_C].kind = "file"
  /\ last.err = ""
  /\ fs[D] = Dir
  /\ ~HasChildren(D, fs)

\* C6 as claimed: FileDirectories.delete without recursive, on an existing
\* path, raises exactly when the path is a non-empty directory, whose
\* contents then stay; a regular file or a symlink is removed and the call
\* returns normally; an empty directory is removed.
C6_DeleteRaisesOnlyOnNonEmpty ==
  (last.op = "delete" /\ ~last.flag /\ lstat(last.path, pre) # "absent") =>
    /\ (last.err # "") <=>
         (lstat(last.path, pre) = "dir" /\ HasChildren(last.path, pre))
    /\ last.err # "" => fs = pre
    /\ lstat(last.path, fs) = "absent" \/ last.err # ""

\* C7: constructing a FileWrapper raises on an existing directory and
\* constructing a DirectoryWrapper raises on an existing file; on a path
\* that does not exist, or exists with the expected kind, the construction
\* returns the new object; a construction never touches the file system.
C7_FacadeValidatesKind ==
  /\ last.op = "FileWrapper" =>
       /\ is_directory(last.path, pre) => last.err = "ValueError"
       /\ (~exists(last.path, pre) \/ is_file(last.path, pre)) =>
            (last.err = "" /\ fw.made /\ fw.arg = last.path)
       /\ fs = pre
  /\ last.op = "DirectoryWrapper" =>
       /\ is_file(last.path, pre) => last.err = "ValueError"
       /\ (~exists(last.path, pre) \/ is_directory(last.path, pre)) =>
            (last.err = "" /\ dw.made /\ dw.arg = last.path)
       /\ fs = pre

C7_Witness ==
  /\ last.op = "DirectoryWrapper"
  /\ is_file(last.path, pre)
  /\ lstat(last.path, pre) = "file"
  /\ last.err = "ValueError"
  /\ fw.made
  /\ fw.arg = last.path

\* C8 as claimed: a constructed DirectoryWrapper holds its path as the
\* attribute directory, and its operations give the outcome of the
\* module-level operations called with that path.
C8_WrapperHoldsDirectory ==
  dw.made =>
    /\ HasAttr(dw, "directory")
    /\ GetAttr(dw, "directory") = dw.arg
    /\ last.op = "dw.create" =>
         (last.err = create(dw.arg, pre).err /\ last.ret = create(dw.arg, pre).ret
          /\ fs = create(dw.arg, pre).fs)
    /\ last.op = "dw.parent" =>
         (last.err = "" /\ last.ret = parent(dw.arg, last.depth, pre).ret)

\* the lines on which word stands as a whole token: word is not empty,
\* holds no white space, and occurs in the decoded text delimited by white
\* space or the ends of the text; the line of an occurrence is one more
\* than the number of line feeds before it
TokenLines(word, tt) ==
  IF word = <<>> \/ \E i \in 1..Len(word) : IsSpace(word[i]) THEN {}
  ELSE {1 + Cardinality({k \in 1..(i - 1) : tt[k] = LF}) :
          i \in {j \in 1..(Len(tt) - Len(word) + 1) :
                   /\ SubSeq(tt, j, j + Len(word) - 1) = word
                   /\ j = 1 \/ IsSpace(tt[j - 1])
                   /\ j + Len(word) - 1 = Len(tt) \/ IsSpace(tt[j + Len(word)])}}

\* a text as a text-mode handle decodes it: every line ending ("\r\n",
\* "\r", "\n") is one line feed
Decoded(t) ==
  LET keep == {i \in 1..Len(t) : ~(t[i] = LF /\ i > 1 /\ t[i - 1] = CR)}
      pos(k) == CHOOSE i \in keep : Cardinality({j \in keep : j <= i}) = k
  IN [k \in 1..Cardinality(keep) |-> IF t[pos(k)] = CR THEN LF ELSE t[pos(k)]]

\* C9: FileFind.line_number returns None when the path is not an existing
\* file; otherwise the 1-based number of the first line holding the word as
\* a whole white-space delimited token, and -1 when no line does.
C9_LineNumber ==
  last.op = "line_number" =>
    /\ last.err = ""
    /\ fs = pre
    /\ ~is_file(last.path, pre) => last.ret = <<>>
    /\ is_file(last.path, pre) =>
         /\ Len(last.ret) = 1
         /\ TokenLines(last.text, Decoded(At(last.path, pre).text)) = {}
              => last.ret[1] = -1
         /\ TokenLines(last.text, Decoded(At(last.path, pre).text)) # {}
              => /\ last.ret[1] \in TokenLines(last.text, Decoded(At(last.path, pre).text))
                 /\ \A n \in TokenLines(last.text, Decoded(At(last.path, pre).text)) :
                      last.ret[1] <= n

C9_Witness ==
  /\ last.op = "line_number"
  /\ last.path = D_A
  /\ pre[D_A] = File(<<"a", "a", LF, "a">>)
  /\ last.text = <<"a">>
  /\ last.ret = <<2>>

Prefix(q, n) == SubSeq(q, 1, n)

Min(a, b) == IF a <= b THEN a ELSE b

\* C10 as claimed: FileDirectories.parent returns None on a missing path;
\* on an existing path it returns the path with exactly depth trailing
\* components stripped, and the path itself when depth <= 0.
C10_StripsExactlyDepth ==
  last.op = "parent" =>
    /\ ~exists(last.path, pre) => last.ret = <<>>
    /\ exists(last.path, pre) =>
         /\ Len(last.ret) = 1
         /\ last.depth <= 0 => last.ret[1] = last.path
         /\ last.depth > 0 =>
              /\ Len(Split(last.ret[1])) = Len(Split(last.path)) - last.depth
              /\ Split(last.ret[1]) = Prefix(Split(last.path), Len(Split(last.ret[1])))

\* the number of components dirname applied depth times strips: a trailing
\* separator is stripped first, and there is nothing to strip beyond the
\* first component
Stripped(p, depth) ==
  Min(IF endswith(p, SEP) THEN depth - 1 ELSE depth, Len(Split(p)))

\* C10 amended: FileDirectories.parent returns None on a missing path,
\* whatever the depth; on an existing path it returns the path itself when
\* depth <= 0 and otherwise the path with its trailing components stripped
\* by depth dirnames: exactly depth of them when the path has no trailing
\* separator and at least depth components, all of them when it has fewer,
\* and one less when the path ends with a separator.
C10_Parent ==
  last.op = "parent" =>
    /\ last.err = ""
    /\ fs = pre
    /\ ~exists(last.path, pre) => last.ret = <<>>
    /\ exists(last.path, pre) =>
         /\ Len(last.ret) = 1
         /\ last.depth <= 0 => last.ret[1] = last.path
         /\ last.depth > 0 =>
              /\ Split(last.ret[1]) =
                   Prefix(Split(last.path),
                          Len(Split(last.path)) - Stripped(last.path, last.depth))
              /\ startswith(last.ret[1], SEP) <=> startswith(last.path, SEP)
              /\ ~endswith(last.ret[1], SEP) \/ AllSep(last.ret[1])

C10_Witness ==
  /\ last.op = "parent"
  /\ last.path = Abs(D_SUB_C)
  /\ last.depth = 2
  /\ exists(last.path, pre)
  /\ last.ret = <<Abs(D)>>

-----------------------------------------------------------------------------
\* C11: every helper operation that opens a file handle internally has closed
\* it by the time it returns or raises, so after any sequence of calls no
\* handle opened by the library is still open.
C11_NoOpenHandles == handles = 0

====
